---- MODULE Spec2Model ----
(***************************************************************************)
(* WaveManager (src/unnamed/part_000): the wave strength ledger, the       *)
(* booster and forced-flag registry and the propagateWave() orchestrator,  *)
(* driven by the scene (StadiumScene.ts) and by the sectionWave listener   *)
(* described in WAVE_ARCHITECTURE.md.                                      *)
(*                                                                         *)
(* Numbers are fixed point, in hundredths: a strength of 50 is 5000, a     *)
(* participation rate of 0.6 is 60, a booster multiplier of 1.2 is 120.    *)
(* Numeric inputs are finite numbers (no NaN, no infinity).                *)
(***************************************************************************)
EXTENDS Integers, Sequences, FiniteSets, TLC

VARIABLES
    countdown,                 \* this.countdown, in ticks
    active,                    \* this.active
    currentSection,            \* this.currentSection
    score,                     \* this.score
    multiplier,                \* this.multiplier, hundredths
    waveResults,               \* this.waveResults
    propagating,               \* this.propagating
    waveSputter,               \* this.waveSputter
    currentWaveStrength,       \* this.currentWaveStrength, hundredths
    waveCalculationResults,    \* this.waveCalculationResults
    consecutiveFailedColumns,  \* this.consecutiveFailedColumns
    lastSectionWaveState,      \* this.lastSectionWaveState
    lastBoosterType,           \* this.lastBoosterType
    forceSputterNextSection,   \* this.forceSputterNextSection
    forceDeathNextSection,     \* this.forceDeathNextSection
    waveBoosterMultiplier,     \* this.waveBoosterMultiplier, hundredths
    lastColumnParticipationRate, \* this.lastColumnParticipationRate, hundredths
    lastTwoColumnParticipation,  \* this.lastTwoColumnParticipation
    columnStateRecords,          \* this.columnStateRecords
    pc,                        \* position of the running propagateWave(): "none" or "await"
    loopIndex,                 \* propagateWave's i (0-based)
    hasFailedOnce,             \* propagateWave's hasFailedOnce
    listener,                  \* the sectionWave listener of the current handshake: "idle" or "done"
    vendors,                   \* VendorManager.vendors
    vendorEvents,              \* what the last VendorManager call emitted and passed to gameState
    vendorTrack,               \* per vendor, since its last placement: section, time elapsed, serves, completions
    drinkVendor,               \* a DrinkVendorBehavior with its DrinkVendorActor's path
    emitCount,                 \* sectionWave / waveComplete events emitted since the last startWave()
    call                       \* the last method invoked: name, arguments, value overwritten, value returned

ledgerVars == <<currentWaveStrength, lastSectionWaveState>>
boosterVars == <<waveBoosterMultiplier, lastBoosterType>>
flagVars == <<forceSputterNextSection, forceDeathNextSection>>
sessionVars == <<countdown, active, currentSection, waveSputter,
                 consecutiveFailedColumns>>
scoreVars == <<score, multiplier>>
columnVars == <<lastColumnParticipationRate, lastTwoColumnParticipation, columnStateRecords>>
vendorVars == <<vendors, vendorEvents, vendorTrack>>
actorVars == <<vendorVars, drinkVendor>>
propagateVars == <<waveResults, waveCalculationResults, propagating, pc, loopIndex,
                   hasFailedOnce, listener>>

vars == <<countdown, active, currentSection, score, multiplier, waveResults,
          propagating, waveSputter, currentWaveStrength, waveCalculationResults,
          consecutiveFailedColumns, lastSectionWaveState, lastBoosterType,
          forceSputterNextSection, forceDeathNextSection, waveBoosterMultiplier,
          lastColumnParticipationRate, lastTwoColumnParticipation, columnStateRecords,
          pc, loopIndex, hasFailedOnce, listener, vendors, vendorEvents, vendorTrack,
          drinkVendor, emitCount, call>>

----------------------------------------------------------------------------
(* Bounds and inputs *)

\* gameBalance.waveTiming.triggerCountdown / 1000, in ticks (the configuration
\* file is not among the sources: any positive value)
TriggerCountdown == 2
\* ticks the scene keeps delivering below zero while a propagation is suspended
MaxOvershoot == 2
\* startWave() is offered while score < MaxScore * 100
MaxScore == 2

Deltas == {1, 2}

Null == "null"
States == {"success", "sputter", "death"}
BoosterTypes == {"momentum", "recovery", "participation"}
Sections == <<"A", "B", "C">>
EventKeys == {"sectionWave_A", "sectionWave_B", "sectionWave_C", "waveComplete"}

\* participation rates (hundredths) offered to adjustWaveStrength
Rates == {10, 39, 40, 59, 60, 65}
\* values (hundredths) offered to setWaveStrength
StrengthValues == {-1000, 0, 500, 4000, 5500, 9700, 10000, 15000}

----------------------------------------------------------------------------
(* Configuration *)

StartingStrength == 5000

\* vendors the scene creates
VendorCount == 2
\* placeVendor: serviceTimer = 2000 (ms)
ServiceTime == 2000

boosterPercents == [momentum |-> 20, recovery |-> 40, participation |-> 60]

----------------------------------------------------------------------------
(* Pure helpers *)

Min(a, b) == IF a < b THEN a ELSE b
Max(a, b) == IF a > b THEN a ELSE b

Clamp(v) == Max(0, Min(10000, v))

\* faulty variant: the booster is not read
MomentumBoostIgnored(boosterMultiplier) == 100

MomentumBoost(boosterMultiplier) ==
    IF boosterMultiplier # 0 /\ boosterMultiplier > 100 THEN boosterMultiplier ELSE 100

\* gameBalance.waveClassification thresholds, hundredths
columnSuccessThreshold == 60
columnSputterThreshold == 40

\* faulty variant: the thresholds are compared strictly
ClassifyColumnStrict(participationRate) ==
    IF participationRate > columnSuccessThreshold THEN "success"
    ELSE IF participationRate > columnSputterThreshold THEN "sputter"
    ELSE "death"

\* classifyColumn
ClassifyColumn(participationRate) ==
    IF participationRate >= columnSuccessThreshold THEN "success"
    ELSE IF participationRate >= columnSputterThreshold THEN "sputter"
    ELSE "death"

\* gameBalance.waveClassification.recoveryPowerMultiplier, hundredths
recoveryPowerMultiplier == 50

\* faulty variant: any column that was not a success and now is earns the bonus
CalculateEnhancedRecoveryAnyFailure(previousColumnState, currentColumnState) ==
    IF previousColumnState # "success" /\ currentColumnState = "success"
    THEN recoveryPowerMultiplier
    ELSE 0

\* calculateEnhancedRecovery
CalculateEnhancedRecovery(previousColumnState, currentColumnState) ==
    IF previousColumnState = "sputter" /\ currentColumnState = "success"
    THEN recoveryPowerMultiplier
    ELSE 0

\* columns of a section
ColumnsPerSection == 8

\* the ways the columns of one section can split over the three states
ColumnCounts ==
    {c \in [States -> 0..ColumnsPerSection] :
        c["success"] + c["sputter"] + c["death"] = ColumnsPerSection}

\* faulty variant: on a shared top count the lower category wins
ClassifySectionLowestOnTie(counts) ==
    IF counts["death"] >= counts["sputter"] /\ counts["death"] >= counts["success"] THEN "death"
    ELSE IF counts["sputter"] >= counts["success"] THEN "sputter"
    ELSE "success"

\* section state: majority of the column states, ties going to success, then sputter
ClassifySection(counts) ==
    IF counts["success"] >= counts["sputter"] /\ counts["success"] >= counts["death"] THEN "success"
    ELSE IF counts["sputter"] >= counts["death"] THEN "sputter"
    ELSE "death"

\* the three-way branch of adjustWaveStrength, before the final clamp
AdjustBranch(lastState, currentState, participationRate, momentumBoost, strength) ==
    IF lastState = "success" THEN
        IF currentState = "success" THEN Min(10000, strength + 5 * momentumBoost)
        ELSE IF currentState = "sputter" THEN Max(0, strength - 1500)
        ELSE IF currentState = "death" THEN Max(0, strength - 3000)
        ELSE strength
    ELSE IF lastState = "sputter" THEN
        IF participationRate >= 60 THEN Min(10000, strength + 10 * momentumBoost)
        ELSE IF participationRate >= 40 /\ participationRate < 60 THEN Max(0, strength - 800)
        ELSE IF participationRate < 40 THEN Max(0, strength - 2500)
        ELSE strength
    ELSE IF lastState = "death" THEN
        IF participationRate >= 60 THEN Min(10000, strength + 15 * momentumBoost)
        ELSE IF participationRate >= 40 THEN Max(0, strength - 1000)
        ELSE Max(0, strength - 500)
    ELSE strength

\* faulty variant: every Math.min / Math.max of adjustWaveStrength dropped
AdjustedStrengthUnclamped(lastState, currentState, participationRate, momentumBoost, strength) ==
    IF lastState = "success" THEN
        IF currentState = "success" THEN strength + 5 * momentumBoost
        ELSE IF currentState = "sputter" THEN strength - 1500
        ELSE strength - 3000
    ELSE IF lastState = "sputter" THEN
        IF participationRate >= 60 THEN strength + 10 * momentumBoost
        ELSE IF participationRate >= 40 THEN strength - 800
        ELSE strength - 2500
    ELSE IF lastState = "death" THEN
        IF participationRate >= 60 THEN strength + 15 * momentumBoost
        ELSE IF participationRate >= 40 THEN strength - 1000
        ELSE strength - 500
    ELSE strength

\* faulty variant: coming from success, the branch is picked by the participation rate
AdjustedStrengthSuccessByRate(lastState, currentState, participationRate, momentumBoost, strength) ==
    Clamp(AdjustBranch(lastState,
                       IF lastState = "success" THEN ClassifyColumn(participationRate) ELSE currentState,
                       participationRate, momentumBoost, strength))

\* faulty variant: coming from sputter, the branch is picked by the current state label
AdjustedStrengthSputterByState(lastState, currentState, participationRate, momentumBoost, strength) ==
    Clamp(AdjustBranch(lastState, currentState,
                       IF lastState = "sputter"
                       THEN (IF currentState = "success" THEN 60
                             ELSE IF currentState = "sputter" THEN 40 ELSE 0)
                       ELSE participationRate,
                       momentumBoost, strength))

\* faulty variant: coming from death, the sputter rows are applied
AdjustedStrengthDeathAsSputter(lastState, currentState, participationRate, momentumBoost, strength) ==
    Clamp(AdjustBranch(IF lastState = "death" THEN "sputter" ELSE lastState,
                       currentState, participationRate, momentumBoost, strength))

\* faulty variant: a missing previous state is compared as 'success'
AdjustedStrengthNullAsSuccess(lastState, currentState, participationRate, momentumBoost, strength) ==
    Clamp(AdjustBranch(IF lastState = Null THEN "success" ELSE lastState,
                       currentState, participationRate, momentumBoost, strength))

AdjustedStrength(lastState, currentState, participationRate, momentumBoost, strength) ==
    Clamp(AdjustBranch(lastState, currentState, participationRate, momentumBoost, strength))

NoEvents == [k \in EventKeys |-> 0]

VendorIds == 0..(VendorCount - 1)

NewVendor(id) ==
    [id |-> id, currentSection |-> Null, isServing |-> FALSE, cooldown |-> 0, serviceTimer |-> 0]

NotPlaced == [section |-> Null, elapsed |-> 0, served |-> <<>>, completed |-> <<>>]

\* a DrinkVendorBehavior as its constructor leaves it, on an actor without a
\* path; times are in half seconds, and the nullable section index is a
\* sequence of at most one number
NewDrinkVendor(service) ==
    [state |-> "awaitingAssignment", targetFanActor |-> Null, targetPosition |-> Null,
     assignedSectionIdx |-> <<>>, serviceTimer |-> 0, scanTimer |-> 0, idleTimer |-> 0,
     cooldownTimer |-> 0, patrolTimer |-> 0, pathfindingService |-> service,
     pathLeft |-> 0, servingElapsed |-> 0]

Called(op, args, before, ret) == [op |-> op, args |-> args, before |-> before, ret |-> ret]

----------------------------------------------------------------------------
(* Construction *)

\* the managers as their constructors leave them
InitManagers ==
    /\ countdown = TriggerCountdown
    /\ active = FALSE
    /\ currentSection = 0
    /\ score = 0
    /\ multiplier = 100
    /\ waveResults = <<>>
    /\ propagating = FALSE
    /\ waveSputter = [active |-> FALSE, columnsRemaining |-> 0]
    /\ currentWaveStrength = StartingStrength
    /\ waveCalculationResults = <<>>
    /\ consecutiveFailedColumns = 0
    /\ lastSectionWaveState = Null
    /\ lastBoosterType = "none"
    /\ forceSputterNextSection = FALSE
    /\ forceDeathNextSection = FALSE
    /\ waveBoosterMultiplier = 100
    /\ lastColumnParticipationRate = 0
    /\ lastTwoColumnParticipation = <<>>
    /\ columnStateRecords = <<>>
    /\ pc = "none"
    /\ loopIndex = 0
    /\ hasFailedOnce = FALSE
    /\ listener = "idle"
    /\ vendors = [v \in VendorIds |-> NewVendor(v)]
    /\ vendorEvents = <<>>
    /\ vendorTrack = [v \in VendorIds |-> NotPlaced]
    /\ emitCount = NoEvents

Init ==
    /\ InitManagers
    /\ drinkVendor = NewDrinkVendor(FALSE)
    /\ call = Called("constructor", <<>>, Null, Null)

----------------------------------------------------------------------------
(* The synchronous public methods *)

SetLastSectionWaveState(state) ==
    /\ lastSectionWaveState' = state
    /\ call' = Called("setLastSectionWaveState", <<state>>, Null, Null)
    /\ UNCHANGED <<currentWaveStrength, boosterVars, flagVars, sessionVars, scoreVars,
                   columnVars, actorVars, propagateVars, emitCount>>

SetForceSputter(flag) ==
    /\ forceSputterNextSection' = flag
    /\ call' = Called("setForceSputter", <<flag>>, Null, Null)
    /\ UNCHANGED <<forceDeathNextSection, ledgerVars, boosterVars, sessionVars, scoreVars,
                   columnVars, actorVars, propagateVars, emitCount>>

SetForceDeath(flag) ==
    /\ forceDeathNextSection' = flag
    /\ call' = Called("setForceDeath", <<flag>>, Null, Null)
    /\ UNCHANGED <<forceSputterNextSection, ledgerVars, boosterVars, sessionVars, scoreVars,
                   columnVars, actorVars, propagateVars, emitCount>>

ConsumedPayload == [sputter |-> forceSputterNextSection, death |-> forceDeathNextSection]

\* faulty variant: only the sputter flag is cleared
ConsumeForcedFlagsSputterOnly ==
    /\ forceSputterNextSection' = FALSE
    /\ call' = Called("consumeForcedFlags", <<>>, Null, ConsumedPayload)
    /\ UNCHANGED <<forceDeathNextSection, ledgerVars, boosterVars, sessionVars, scoreVars,
                   columnVars, actorVars, propagateVars, emitCount>>

ConsumeForcedFlags ==
    /\ forceSputterNextSection' = FALSE
    /\ forceDeathNextSection' = FALSE
    /\ call' = Called("consumeForcedFlags", <<>>, Null, ConsumedPayload)
    /\ UNCHANGED <<ledgerVars, boosterVars, sessionVars, scoreVars,
                   columnVars, actorVars, propagateVars, emitCount>>

SetWaveStrength(value) ==
    /\ currentWaveStrength' = Clamp(value)
    /\ call' = Called("setWaveStrength", <<value>>, Null, Null)
    /\ UNCHANGED <<lastSectionWaveState, boosterVars, flagVars, sessionVars, scoreVars,
                   columnVars, actorVars, propagateVars, emitCount>>

\* faulty variant: the new percent is added to the active multiplier
BoostedMultiplierStacked(type, current) == current + boosterPercents[type]

BoostedMultiplier(type, current) == 100 + boosterPercents[type]

\* faulty variant: the booster is applied to the strength at once
ApplyWaveBoosterScalesStrength(type) ==
    /\ waveBoosterMultiplier' = BoostedMultiplier(type, waveBoosterMultiplier)
    /\ lastBoosterType' = type
    /\ currentWaveStrength' = Clamp((currentWaveStrength * (100 + boosterPercents[type])) \div 100)
    /\ UNCHANGED lastSectionWaveState
    /\ call' = Called("applyWaveBooster", <<type>>, waveBoosterMultiplier, Null)
    /\ UNCHANGED <<flagVars, sessionVars, scoreVars,
                   columnVars, actorVars, propagateVars, emitCount>>

ApplyWaveBooster(type) ==
    /\ waveBoosterMultiplier' = BoostedMultiplier(type, waveBoosterMultiplier)
    /\ lastBoosterType' = type
    /\ call' = Called("applyWaveBooster", <<type>>, waveBoosterMultiplier, Null)
    /\ UNCHANGED <<ledgerVars, flagVars, sessionVars, scoreVars,
                   columnVars, actorVars, propagateVars, emitCount>>

ClearWaveBooster ==
    /\ waveBoosterMultiplier' = 100
    /\ lastBoosterType' = "none"
    /\ call' = Called("clearWaveBooster", <<>>, Null, Null)
    /\ UNCHANGED <<ledgerVars, flagVars, sessionVars, scoreVars,
                   columnVars, actorVars, propagateVars, emitCount>>

AdjustWaveStrength(currentState, participationRate) ==
    /\ currentWaveStrength' =
           AdjustedStrength(lastSectionWaveState, currentState, participationRate,
                            MomentumBoost(waveBoosterMultiplier), currentWaveStrength)
    /\ call' = Called("adjustWaveStrength", <<currentState, participationRate>>,
                      currentWaveStrength, Null)
    /\ UNCHANGED <<lastSectionWaveState, boosterVars, flagVars, sessionVars, scoreVars,
                   columnVars, actorVars, propagateVars, emitCount>>

\* checkWaveSputter; randomColumns is Math.floor(Math.random() * 3)
CheckWaveSputter(participationRate, randomColumns) ==
    /\ IF participationRate < 40 /\ ~waveSputter.active
       THEN /\ waveSputter' = [active |-> TRUE, columnsRemaining |-> 3 + randomColumns]
            /\ call' = Called("checkWaveSputter", <<participationRate>>, waveSputter, TRUE)
       ELSE /\ UNCHANGED waveSputter
            /\ call' = Called("checkWaveSputter", <<participationRate>>, waveSputter, FALSE)
    /\ UNCHANGED <<countdown, active, currentSection, consecutiveFailedColumns, ledgerVars,
                   boosterVars, flagVars, scoreVars, columnVars, actorVars, propagateVars,
                   emitCount>>

DecrementSputter ==
    /\ waveSputter' =
           IF waveSputter.active
           THEN [active |-> waveSputter.columnsRemaining - 1 > 0,
                 columnsRemaining |-> waveSputter.columnsRemaining - 1]
           ELSE waveSputter
    /\ call' = Called("decrementSputter", <<>>, waveSputter, Null)
    /\ UNCHANGED <<countdown, active, currentSection, consecutiveFailedColumns, ledgerVars,
                   boosterVars, flagVars, scoreVars, columnVars, actorVars, propagateVars,
                   emitCount>>

\* the most column records kept
MaxColumnRecords == 32

\* the last MaxColumnRecords entries of a sequence
\* faulty variant: beyond the capacity the newest entries are dropped
LastRecordsKeepsOldest(records) ==
    IF Len(records) > MaxColumnRecords
    THEN SubSeq(records, 1, MaxColumnRecords)
    ELSE records

LastRecords(records) ==
    IF Len(records) > MaxColumnRecords
    THEN SubSeq(records, Len(records) - MaxColumnRecords + 1, Len(records))
    ELSE records

RecordColumnState(sectionId, columnIndex, participation, state) ==
    /\ columnStateRecords' =
           LastRecords(Append(columnStateRecords,
                              [sectionId |-> sectionId, columnIndex |-> columnIndex,
                               participation |-> participation, state |-> state]))
    /\ call' = Called("recordColumnState", <<sectionId, columnIndex, participation, state>>,
                      Null, Null)
    /\ UNCHANGED <<lastColumnParticipationRate, lastTwoColumnParticipation, sessionVars,
                   ledgerVars, boosterVars, flagVars, scoreVars, actorVars, propagateVars,
                   emitCount>>

PushColumnParticipation(participation) ==
    /\ lastTwoColumnParticipation' =
           LET pushed == Append(lastTwoColumnParticipation, participation)
           IN IF Len(pushed) > 2 THEN Tail(pushed) ELSE pushed
    /\ call' = Called("pushColumnParticipation", <<participation>>, Null, Null)
    /\ UNCHANGED <<lastColumnParticipationRate, columnStateRecords, sessionVars,
                   ledgerVars, boosterVars, flagVars, scoreVars, actorVars, propagateVars,
                   emitCount>>

\* faulty variant: a sputter of the previous wave stays active
StartWaveKeepsSputter ==
    /\ active' = TRUE
    /\ countdown' = TriggerCountdown
    /\ currentSection' = 0
    /\ currentWaveStrength' = StartingStrength
    /\ waveCalculationResults' = <<>>
    /\ consecutiveFailedColumns' = 0
    /\ emitCount' = NoEvents
    /\ call' = Called("startWave", <<>>, Null, Null)
    /\ UNCHANGED <<waveSputter, lastSectionWaveState, boosterVars, flagVars, scoreVars, columnVars, actorVars,
                   waveResults, propagating, pc, loopIndex, hasFailedOnce, listener>>

\* faulty variant: the forced flags and the booster are cleared with the wave
StartWaveClearsRegistry ==
    /\ active' = TRUE
    /\ countdown' = TriggerCountdown
    /\ currentSection' = 0
    /\ currentWaveStrength' = StartingStrength
    /\ waveCalculationResults' = <<>>
    /\ consecutiveFailedColumns' = 0
    /\ waveSputter' = [active |-> FALSE, columnsRemaining |-> 0]
    /\ emitCount' = NoEvents
    /\ forceSputterNextSection' = FALSE
    /\ forceDeathNextSection' = FALSE
    /\ waveBoosterMultiplier' = 100
    /\ lastBoosterType' = "none"
    /\ call' = Called("startWave", <<>>, Null, Null)
    /\ UNCHANGED <<lastSectionWaveState, scoreVars, columnVars, actorVars,
                   waveResults, propagating, pc, loopIndex, hasFailedOnce, listener>>

\* faulty variant: a new wave starts the score from zero
StartWaveResetsScore ==
    /\ active' = TRUE
    /\ countdown' = TriggerCountdown
    /\ currentSection' = 0
    /\ currentWaveStrength' = StartingStrength
    /\ waveCalculationResults' = <<>>
    /\ consecutiveFailedColumns' = 0
    /\ waveSputter' = [active |-> FALSE, columnsRemaining |-> 0]
    /\ emitCount' = NoEvents
    /\ score' = 0
    /\ call' = Called("startWave", <<>>, Null, Null)
    /\ UNCHANGED <<lastSectionWaveState, boosterVars, flagVars, multiplier, columnVars, actorVars,
                   waveResults, propagating, pc, loopIndex, hasFailedOnce, listener>>

StartWave ==
    /\ active' = TRUE
    /\ countdown' = TriggerCountdown
    /\ currentSection' = 0
    /\ currentWaveStrength' = StartingStrength
    /\ waveCalculationResults' = <<>>
    /\ consecutiveFailedColumns' = 0
    /\ waveSputter' = [active |-> FALSE, columnsRemaining |-> 0]
    /\ emitCount' = NoEvents
    /\ call' = Called("startWave", <<>>, Null, Null)
    /\ UNCHANGED <<lastSectionWaveState, boosterVars, flagVars, scoreVars, columnVars, actorVars,
                   waveResults, propagating, pc, loopIndex, hasFailedOnce, listener>>

----------------------------------------------------------------------------
(* Any sequence of calls on the strength ledger *)

NextLedger ==
    \/ \E s \in States, r \in Rates : AdjustWaveStrength(s, r)
    \/ \E v \in StrengthValues : SetWaveStrength(v)
    \/ StartWave
    \/ \E t \in BoosterTypes : ApplyWaveBooster(t)
    \/ ClearWaveBooster
    \/ \E s \in States \cup {Null} : SetLastSectionWaveState(s)

SpecLedger == Init /\ [][NextLedger]_vars

(* Any sequence of calls on the booster and forced-flag registry *)

NextRegistry ==
    \/ \E f \in BOOLEAN : SetForceSputter(f)
    \/ \E f \in BOOLEAN : SetForceDeath(f)
    \/ ConsumeForcedFlags
    \/ \E t \in BoosterTypes : ApplyWaveBooster(t)
    \/ ClearWaveBooster
    \/ StartWave
    \/ \E s \in States \cup {Null} : SetLastSectionWaveState(s)

SpecRegistry == Init /\ [][NextRegistry]_vars

----------------------------------------------------------------------------
(* propagateWave() and the countdown that triggers it *)

SectionWaveKey(index) ==
    IF index = 0 THEN "sectionWave_A"
    ELSE IF index = 1 THEN "sectionWave_B"
    ELSE "sectionWave_C"

Emitted(key) == [emitCount EXCEPT ![key] = @ + 1]

\* faulty variant: section A's event is not awaited before section B's is emitted
PropagateEnterNoAwait ==
    /\ propagating' = TRUE
    /\ waveResults' = <<>>
    /\ waveCalculationResults' = <<>>
    /\ loopIndex' = 0
    /\ hasFailedOnce' = FALSE
    /\ emitCount' = [emitCount EXCEPT ![SectionWaveKey(0)] = @ + 1,
                                      ![SectionWaveKey(1)] = @ + 1]
    /\ pc' = "await"
    /\ listener' = "idle"

\* propagateWave() from its guard up to the first await
\* faulty variant: the results of the previous propagation are kept
PropagateEnterKeepsResults ==
    /\ propagating' = TRUE
    /\ UNCHANGED waveResults
    /\ waveCalculationResults' = <<>>
    /\ loopIndex' = 0
    /\ hasFailedOnce' = FALSE
    /\ emitCount' = Emitted(SectionWaveKey(0))
    /\ pc' = "await"
    /\ listener' = "idle"

PropagateEnter ==
    /\ propagating' = TRUE
    /\ waveResults' = <<>>
    /\ waveCalculationResults' = <<>>
    /\ loopIndex' = 0
    /\ hasFailedOnce' = FALSE
    /\ emitCount' = Emitted(SectionWaveKey(0))
    /\ pc' = "await"
    /\ listener' = "idle"

\* faulty variant: the re-entrancy guard is missing
PropagateWaveUnguarded == PropagateEnter

\* faulty variant: a propagation invoked while one is suspended abandons the
\* suspended one
PropagateWaveAbandons ==
    IF propagating
    THEN /\ propagating' = FALSE
         /\ pc' = "none"
         /\ UNCHANGED <<waveResults, waveCalculationResults, loopIndex, hasFailedOnce,
                        listener, emitCount>>
    ELSE PropagateEnter

\* faulty variant: a propagation invoked while one is suspended signals the
\* suspended section once more
PropagateWaveReemits ==
    IF propagating
    THEN /\ emitCount' = Emitted(SectionWaveKey(loopIndex))
         /\ UNCHANGED propagateVars
    ELSE PropagateEnter

PropagateWave ==
    IF propagating
    THEN UNCHANGED <<propagateVars, emitCount>>
    ELSE PropagateEnter

\* faulty variant: the countdown runs out without starting the propagation
UpdateCountdownNeverPropagates(deltaTime) ==
    /\ countdown' = countdown - deltaTime
    /\ UNCHANGED <<propagateVars, emitCount>>
    /\ call' = Called("updateCountdown", <<deltaTime>>, Null, Null)
    /\ UNCHANGED <<active, currentSection, waveSputter, consecutiveFailedColumns,
                   ledgerVars, boosterVars, flagVars, scoreVars, columnVars, actorVars>>

UpdateCountdown(deltaTime) ==
    /\ countdown' = countdown - deltaTime
    /\ IF countdown - deltaTime <= 0
       THEN PropagateWave
       ELSE UNCHANGED <<propagateVars, emitCount>>
    /\ call' = Called("updateCountdown", <<deltaTime>>, Null, Null)
    /\ UNCHANGED <<active, currentSection, waveSputter, consecutiveFailedColumns,
                   ledgerVars, boosterVars, flagVars, scoreVars, columnVars, actorVars>>

\* faulty variant: active is not lowered at the end of the propagation
CompleteWaveStaysActive ==
    /\ emitCount' = Emitted("waveComplete")
    /\ propagating' = FALSE
    /\ pc' = "none"
    /\ UNCHANGED active

\* the end of propagateWave(): waveComplete is emitted, then the flags are lowered
CompleteWave ==
    /\ emitCount' = Emitted("waveComplete")
    /\ active' = FALSE
    /\ propagating' = FALSE
    /\ pc' = "none"

\* faulty variant: a death does not mark the propagation as failed
FailedAfterNever(sectionState, failed) == failed

FailedAfter(sectionState, failed) == failed \/ sectionState = "death"

\* faulty variant: every processed section is awarded
ScoreAfterUnconditional(sectionState, failed, current) == current + 100

ScoreAfter(sectionState, failed, current) ==
    IF sectionState = "success" /\ ~failed THEN current + 100 ELSE current

\* propagateWave() from the return of an await to the next await, or to its end
ResumePropagation ==
    /\ pc = "await"
    /\ LET sectionState == lastSectionWaveState
           failed == FailedAfter(sectionState, hasFailedOnce)
           next == loopIndex + 1
       IN /\ waveResults' = Append(waveResults,
                                   [section |-> Sections[loopIndex + 1],
                                    success |-> (sectionState = "success"),
                                    chance |-> 0])
          /\ multiplier' = IF sectionState = "death" /\ ~hasFailedOnce THEN 100 ELSE multiplier
          /\ hasFailedOnce' = failed
          /\ score' = ScoreAfter(sectionState, failed, score)
          /\ loopIndex' = next
          /\ listener' = "idle"
          /\ IF next < Len(Sections) /\ ~failed
             THEN /\ emitCount' = Emitted(SectionWaveKey(next))
                  /\ pc' = "await"
                  /\ UNCHANGED <<active, propagating>>
             ELSE CompleteWave
          /\ call' = Called("propagateWave", <<>>, Null,
                            IF next < Len(Sections) /\ ~failed
                            THEN Null
                            ELSE [event |-> "waveComplete", results |-> waveResults'])
    /\ UNCHANGED <<countdown, currentSection, waveSputter, consecutiveFailedColumns,
                   waveCalculationResults, ledgerVars, boosterVars, flagVars, columnVars, actorVars>>

----------------------------------------------------------------------------
(* The callers: the scene and the sectionWave listener *)

\* the wave button of the scene
WaveButtonClick ==
    /\ ~active
    /\ score < MaxScore * 100
    /\ StartWave

\* faulty variant: the frame ticks the countdown whether or not a wave is active
SceneUpdateUnguarded(delta) ==
    /\ countdown > -MaxOvershoot
    /\ UpdateCountdown(delta)

\* the scene's update(): the countdown is ticked while the wave is active
SceneUpdate(delta) ==
    /\ active
    /\ countdown > -MaxOvershoot
    /\ UpdateCountdown(delta)

\* the listener of sectionWave: it classifies the section, adjusts the
\* strength against the previous section's state and commits the new state
SectionListener(sectionState, participationRate) ==
    /\ pc = "await"
    /\ listener = "idle"
    /\ currentWaveStrength' =
           AdjustedStrength(lastSectionWaveState, sectionState, participationRate,
                            MomentumBoost(waveBoosterMultiplier), currentWaveStrength)
    /\ lastSectionWaveState' = sectionState
    /\ listener' = "done"
    /\ call' = Called("sectionWaveListener", <<sectionState, participationRate>>,
                      currentWaveStrength, Null)
    /\ UNCHANGED <<boosterVars, flagVars, sessionVars, scoreVars, columnVars, actorVars, emitCount,
                   waveResults, waveCalculationResults, propagating, pc, loopIndex,
                   hasFailedOnce>>

\* rates (hundredths) the listener reports
ListenerRates == {30, 50, 70}

Next ==
    \/ WaveButtonClick
    \/ \E d \in Deltas : SceneUpdate(d)
    \/ \E s \in States, r \in ListenerRates : SectionListener(s, r)
    \/ ResumePropagation
    \/ \E t \in BoosterTypes : ApplyWaveBooster(t)

Spec == Init /\ [][Next]_vars

-----------------------------------------------------------------------------
(* Waves run while the debug panel sets the forced flags                    *)

NextForced ==
    \/ WaveButtonClick
    \/ \E d \in Deltas : SceneUpdate(d)
    \/ \E s \in States, r \in ListenerRates : SectionListener(s, r)
    \/ ResumePropagation
    \/ \E f \in BOOLEAN : SetForceSputter(f)
    \/ \E f \in BOOLEAN : SetForceDeath(f)

SpecForced == Init /\ [][NextForced]_vars

-----------------------------------------------------------------------------
(* The scenes' wave loop together with the debug panel and the column       *)
(* bookkeeping, explored one setting at a time: a flag, a booster, a        *)
(* column entry or a sputter is put in only while none of the others is in, *)
(* and the strength and last-state overrides are used between waves         *)

NothingSet ==
    /\ ~forceSputterNextSection /\ ~forceDeathNextSection
    /\ lastBoosterType = "none"
    /\ lastTwoColumnParticipation = <<>> /\ columnStateRecords = <<>>
    /\ ~waveSputter.active

SputterColumns == {0, 1, 2}

NextFrame ==
    \/ WaveButtonClick
    \/ \E d \in Deltas : SceneUpdate(d)
    \/ SectionListener("success", 70)
    \/ SectionListener("death", 30)
    \/ ResumePropagation
    \/ \E t \in BoosterTypes : (NothingSet /\ ApplyWaveBooster(t))
    \/ ClearWaveBooster
    \/ \E f \in BOOLEAN : (NothingSet /\ SetForceSputter(f))
    \/ \E f \in BOOLEAN : (NothingSet /\ SetForceDeath(f))
    \/ ConsumeForcedFlags
    \/ \E p \in ListenerRates : (NothingSet /\ PushColumnParticipation(p))
    \/ \E p \in ListenerRates : (NothingSet /\ RecordColumnState("A", 0, p, ClassifyColumn(p)))
    \/ \E p \in ListenerRates, c \in SputterColumns : (NothingSet /\ CheckWaveSputter(p, c))
    \/ DecrementSputter
    \/ (NothingSet /\ ~active /\ SetLastSectionWaveState("sputter"))
    \/ (NothingSet /\ ~active /\ SetWaveStrength(4000))

SpecFrame == Init /\ [][NextFrame]_vars

-----------------------------------------------------------------------------
(* The wave loop of a scene whose sectionWave listener is registered: the   *)
(* awaited emitAsync resolves only after the listener has returned          *)

AwaitedResume ==
    /\ listener = "done"
    /\ ResumePropagation

NextScenario ==
    \/ WaveButtonClick
    \/ \E d \in Deltas : SceneUpdate(d)
    \/ \E s \in States, r \in ListenerRates : SectionListener(s, r)
    \/ AwaitedResume

SpecScenario == Init /\ [][NextScenario]_vars

\* the same loop when the scene keeps ticking and every listener returns
SpecScenarioLive ==
    /\ SpecScenario
    /\ WF_vars(\E d \in Deltas : SceneUpdate(d))
    /\ WF_vars(\E s \in States, r \in ListenerRates : SectionListener(s, r))
    /\ WF_vars(AwaitedResume)

-----------------------------------------------------------------------------
(* The same loop with a sectionWave listener that may throw or reject: the  *)
(* awaited emitAsync rejects and propagateWave() is left at the await, with *)
(* none of the statements after it executed                                 *)

ListenerThrows ==
    /\ pc = "await"
    /\ pc' = "none"
    /\ call' = Called("propagateWave", <<>>, Null, [event |-> "rejected"])
    /\ UNCHANGED <<sessionVars, scoreVars, ledgerVars, boosterVars, flagVars, columnVars,
                   actorVars, emitCount, waveResults, waveCalculationResults, propagating,
                   loopIndex, hasFailedOnce, listener>>

NextThrowing ==
    \/ WaveButtonClick
    \/ \E d \in Deltas : SceneUpdate(d)
    \/ \E s \in States, r \in ListenerRates : SectionListener(s, r)
    \/ AwaitedResume
    \/ ListenerThrows

SpecThrowing == Init /\ [][NextThrowing]_vars

-----------------------------------------------------------------------------
(* The same loop with a caller that invokes startWave() without asking      *)
(* isActive() first                                                         *)

StartWaveCall ==
    /\ score < MaxScore * 100
    /\ StartWave

NextRestart ==
    \/ StartWaveCall
    \/ \E d \in Deltas : SceneUpdate(d)
    \/ \E s \in States, r \in ListenerRates : SectionListener(s, r)
    \/ AwaitedResume

SpecRestart == Init /\ [][NextRestart]_vars

\* the end of propagateWave() when the waveComplete listener calls startWave():
\* the last section is booked (480-497), emit('waveComplete') runs the listener
\* and with it startWave() (502, 417-427), and then the flags are lowered (503-504)
CompleteWaveRestarting ==
    /\ pc = "await"
    /\ listener = "done"
    /\ LET sectionState == lastSectionWaveState
           failed == FailedAfter(sectionState, hasFailedOnce)
           next == loopIndex + 1
       IN /\ ~(next < Len(Sections) /\ ~failed)
          /\ waveResults' = Append(waveResults,
                                   [section |-> Sections[loopIndex + 1],
                                    success |-> (sectionState = "success"),
                                    chance |-> 0])
          /\ multiplier' = IF sectionState = "death" /\ ~hasFailedOnce THEN 100 ELSE multiplier
          /\ hasFailedOnce' = failed
          /\ score' = ScoreAfter(sectionState, failed, score)
          /\ loopIndex' = next
          /\ listener' = "idle"
    /\ countdown' = TriggerCountdown
    /\ currentSection' = 0
    /\ currentWaveStrength' = StartingStrength
    /\ waveCalculationResults' = <<>>
    /\ consecutiveFailedColumns' = 0
    /\ waveSputter' = [active |-> FALSE, columnsRemaining |-> 0]
    /\ emitCount' = NoEvents
    /\ active' = FALSE
    /\ propagating' = FALSE
    /\ pc' = "none"
    /\ call' = Called("propagateWave", <<"startWave">>, Null, Null)
    /\ UNCHANGED <<lastSectionWaveState, boosterVars, flagVars, columnVars, actorVars>>

NextRelaunch ==
    \/ WaveButtonClick
    \/ \E d \in Deltas : SceneUpdate(d)
    \/ \E s \in States, r \in ListenerRates : SectionListener(s, r)
    \/ AwaitedResume
    \/ CompleteWaveRestarting

\* a scene that keeps ticking, whose sectionWave listeners return and whose
\* waveComplete listener may start the next wave
SpecRelaunch ==
    /\ Init
    /\ [][NextRelaunch]_vars
    /\ WF_vars(\E d \in Deltas : SceneUpdate(d))
    /\ WF_vars(\E s \in States, r \in ListenerRates : SectionListener(s, r))
    /\ WF_vars(AwaitedResume)

-----------------------------------------------------------------------------
(* The column record buffer: a scene records the columns of the sections in *)
(* order, wave after wave, and a caller inspects the buffer through         *)
(* getColumnStateRecords() and writes to what it got                        *)

SectionIndex(sectionId) == CHOOSE i \in 1..Len(Sections) : Sections[i] = sectionId

\* the column the scene records next
NextSlot ==
    IF columnStateRecords = <<>>
    THEN [sectionId |-> "A", columnIndex |-> 0]
    ELSE LET last == columnStateRecords[Len(columnStateRecords)]
         IN IF last.columnIndex < ColumnsPerSection - 1
            THEN [sectionId |-> last.sectionId, columnIndex |-> last.columnIndex + 1]
            ELSE [sectionId |-> Sections[(SectionIndex(last.sectionId) % Len(Sections)) + 1],
                  columnIndex |-> 0]

\* the first column of a section is recorded with either rate, the others with one
SlotParticipations(columnIndex) == IF columnIndex = 0 THEN {30, 70} ELSE {50}

RecordNextColumn ==
    \E p \in SlotParticipations(NextSlot.columnIndex) :
        RecordColumnState(NextSlot.sectionId, NextSlot.columnIndex, p, ClassifyColumn(p))

\* what a caller does with the array it got
CopyWrites == {"none", "pop", "push", "replaceFirst", "writeFirstState", "writeLastState"}

\* the array after the caller's write: Array.prototype.slice() copies the
\* array, its entries are the buffer's own record objects
WrittenCopy(copy, write, state) ==
    CASE write = "none" -> copy
      [] write = "pop" -> SubSeq(copy, 1, Len(copy) - 1)
      [] write = "push" -> Append(copy, [sectionId |-> "A", columnIndex |-> 0,
                                         participation |-> 0, state |-> state])
      [] write = "replaceFirst" -> [copy EXCEPT ![1] = [sectionId |-> "A", columnIndex |-> 0,
                                                        participation |-> 0, state |-> state]]
      [] write = "writeFirstState" -> [copy EXCEPT ![1].state = state]
      [] write = "writeLastState" -> [copy EXCEPT ![Len(copy)].state = state]

\* the buffer after the caller's write: only a write to a field of a shared
\* record reaches it
BufferAfterWrite(records, write, state) ==
    CASE write = "writeFirstState" -> [records EXCEPT ![1].state = state]
      [] write = "writeLastState" -> [records EXCEPT ![Len(records)].state = state]
      [] OTHER -> records

\* every record still holds the state it was recorded with
AsRecorded == \A i \in 1..Len(columnStateRecords) :
                  columnStateRecords[i].state = ClassifyColumn(columnStateRecords[i].participation)

GetColumnStateRecords(write, state) ==
    /\ write \in {"pop", "replaceFirst", "writeFirstState", "writeLastState"}
            => columnStateRecords # <<>>
    /\ write \in {"writeFirstState", "writeLastState"} => AsRecorded
    /\ columnStateRecords' = BufferAfterWrite(columnStateRecords, write, state)
    /\ call' = Called("getColumnStateRecords", <<write, state>>, columnStateRecords,
                      WrittenCopy(columnStateRecords, write, state))
    /\ UNCHANGED <<lastColumnParticipationRate, lastTwoColumnParticipation, sessionVars,
                   ledgerVars, boosterVars, flagVars, scoreVars, actorVars, propagateVars,
                   emitCount>>

NextRecords ==
    \/ RecordNextColumn
    \/ \E w \in CopyWrites : GetColumnStateRecords(w, "death")

SpecRecords == Init /\ [][NextRecords]_vars

-----------------------------------------------------------------------------
(* The classification functions the sectionWave listener calls per column   *)
(* and per section                                                          *)

\* participation rates, hundredths
Participations == 0..100

\* everything but the record of the last call
managerVars == <<sessionVars, scoreVars, ledgerVars, boosterVars, flagVars, columnVars,
                 propagateVars, actorVars, emitCount>>

ClassifyColumnCall(participation) ==
    /\ call' = Called("classifyColumn", <<participation>>, Null, ClassifyColumn(participation))
    /\ UNCHANGED managerVars

CalculateEnhancedRecoveryCall(previousColumnState, currentColumnState) ==
    /\ call' = Called("calculateEnhancedRecovery", <<previousColumnState, currentColumnState>>, Null,
                      CalculateEnhancedRecovery(previousColumnState, currentColumnState))
    /\ UNCHANGED managerVars

ClassifySectionCall(counts) ==
    /\ call' = Called("classifySection", <<counts>>, Null, ClassifySection(counts))
    /\ UNCHANGED managerVars

NextColumn ==
    \/ \E p \in Participations : ClassifyColumnCall(p)
    \/ \E prev \in States, cur \in States : CalculateEnhancedRecoveryCall(prev, cur)
    \/ \E c \in ColumnCounts : ClassifySectionCall(c)

SpecColumn == Init /\ [][NextColumn]_vars

-----------------------------------------------------------------------------
(* VendorManager: placement and service timing *)

\* frame times passed to update(), milliseconds
VendorDeltas == {500, 1200, 2000}

\* the WaveManager state, which no VendorManager method touches
waveVars == <<sessionVars, scoreVars, ledgerVars, boosterVars, flagVars, columnVars,
              propagateVars, emitCount, drinkVendor>>

\* faulty variant: only the cooldown keeps a vendor from being placed
PlacementRejectedCooldownOnly(vendor) == vendor.cooldown > 0

\* placeVendor's check: on cooldown or already serving
PlacementRejected(vendor) == vendor.cooldown > 0 \/ vendor.isServing

PlaceVendor(vendorId, sectionId) ==
    LET vendor == vendors[vendorId]
    IN /\ IF PlacementRejected(vendor)
          THEN /\ vendorEvents' = <<>>
               /\ call' = Called("placeVendor", <<vendorId, sectionId>>, vendor, FALSE)
               /\ UNCHANGED <<vendors, vendorTrack>>
          ELSE /\ vendors' = [vendors EXCEPT ![vendorId] =
                                 [vendor EXCEPT !.currentSection = sectionId,
                                                !.isServing = TRUE,
                                                !.serviceTimer = ServiceTime]]
               /\ vendorEvents' = <<[event |-> "vendorPlaced", vendorId |-> vendorId,
                                     section |-> sectionId]>>
               /\ vendorTrack' = [vendorTrack EXCEPT ![vendorId] =
                                     [section |-> sectionId, elapsed |-> 0,
                                      served |-> <<>>, completed |-> <<>>]]
               /\ call' = Called("placeVendor", <<vendorId, sectionId>>, vendor, TRUE)
       /\ UNCHANGED waveVars

\* faulty variant: the service is complete only once the timer is below zero
ServiceCompleteStrict(serviceTimer) == serviceTimer < 0

\* update()'s check on the decremented timer
ServiceComplete(serviceTimer) == serviceTimer <= 0

\* does update(deltaTime) complete this vendor's service
Completes(vendor, deltaTime) ==
    vendor.isServing /\ ServiceComplete(vendor.serviceTimer - deltaTime)

\* one vendor after the body of update()'s loop
UpdatedVendor(vendor, deltaTime) ==
    IF ~vendor.isServing THEN vendor
    ELSE IF Completes(vendor, deltaTime)
         THEN [vendor EXCEPT !.serviceTimer = @ - deltaTime,
                             !.isServing = FALSE,
                             !.currentSection = Null]
         ELSE [vendor EXCEPT !.serviceTimer = @ - deltaTime]

\* the gameState.vendorServe call and the serviceComplete event of one vendor
CompletionEvents(vendor, deltaTime) ==
    IF Completes(vendor, deltaTime)
    THEN <<[event |-> "vendorServe", section |-> vendor.currentSection],
           [event |-> "serviceComplete", vendorId |-> vendor.id,
            section |-> vendor.currentSection]>>
    ELSE <<>>

RECURSIVE UpdateEvents(_, _)
\* what update() emits for the vendors id, id + 1, ..., in the order of the loop
UpdateEvents(id, deltaTime) ==
    IF id \notin VendorIds THEN <<>>
    ELSE CompletionEvents(vendors[id], deltaTime) \o UpdateEvents(id + 1, deltaTime)

\* the record of a vendor's current placement after update(deltaTime)
Tracked(track, vendor, deltaTime) ==
    IF track.section = Null THEN track
    ELSE [track EXCEPT
             !.elapsed = Min(@ + deltaTime, ServiceTime),
             !.served = IF Completes(vendor, deltaTime)
                        THEN Append(@, vendor.currentSection) ELSE @,
             !.completed = IF Completes(vendor, deltaTime)
                           THEN Append(@, [vendorId |-> vendor.id,
                                           section |-> vendor.currentSection])
                           ELSE @]

VendorUpdate(deltaTime) ==
    /\ vendors' = [v \in VendorIds |-> UpdatedVendor(vendors[v], deltaTime)]
    /\ vendorEvents' = UpdateEvents(0, deltaTime)
    /\ vendorTrack' = [v \in VendorIds |-> Tracked(vendorTrack[v], vendors[v], deltaTime)]
    /\ call' = Called("update", <<deltaTime>>, Null, Null)
    /\ UNCHANGED waveVars

\* faulty variant: only the first vendor is looked at
IsVendorInSectionFirstOnly(sectionId) ==
    vendors[0].isServing /\ vendors[0].currentSection = sectionId

\* isVendorInSection: vendors.some(serving in that section)
IsVendorInSection(sectionId) ==
    \E v \in VendorIds : vendors[v].isServing /\ vendors[v].currentSection = sectionId

IsVendorInSectionCall(sectionId) ==
    /\ call' = Called("isVendorInSection", <<sectionId>>, Null, IsVendorInSection(sectionId))
    /\ vendorEvents' = <<>>
    /\ UNCHANGED <<vendors, vendorTrack, waveVars>>

\* the section ids the scene passes
SectionIds == {Sections[i] : i \in 1..Len(Sections)}

NextVendor ==
    \/ \E v \in VendorIds, s \in SectionIds : PlaceVendor(v, s)
    \/ \E d \in VendorDeltas : VendorUpdate(d)
    \/ \E s \in SectionIds : IsVendorInSectionCall(s)

SpecVendor == Init /\ [][NextVendor]_vars

-----------------------------------------------------------------------------
(* DrinkVendorBehavior and the DrinkVendorActor that drives it: the state   *)
(* machine of one drink vendor. Times are in half seconds, the time a       *)
(* vendor needs from one path cell to the next (32 px at 64 px/s).          *)

DrinkServiceTime == 2
IdleTimeout == 3
PatrolIntervalMs == 2
DrinkPatrolInterval == 2
AssignmentCooldown == 2
MaxPathLeft == 2
MaxScanOverdue == 3

ScanDelayAfterService == 2
ScanRetryDelay == 4

DrinkDeltas == {1, 2}

\* what the collaborators answer during one call: whether selectTarget()
\* finds a fan, how many cells the path found has still to be walked (0: no
\* path), whether the grid has a vertical access point, whether a patrol
\* waypoint exists
Answers ==
    [target : BOOLEAN, path : 0..MaxPathLeft, access : BOOLEAN, waypoint : BOOLEAN]

StartPatrol(b, ch) ==
    IF ~ch.access
    THEN [b EXCEPT !.state = "awaitingAssignment"]
    ELSE LET p == [b EXCEPT !.state = "patrolling",
                            !.patrolTimer = PatrolIntervalMs,
                            !.assignedSectionIdx = <<>>]
         IN IF p.pathfindingService /\ ch.path > 0
            THEN [p EXCEPT !.pathLeft = ch.path]
            ELSE p

\* faulty variant: an arrival starts the service whether or not a fan is targeted
OnArrivalWithoutTarget(b) ==
    IF b.state = "recalling"
    THEN [b EXCEPT !.state = "patrolling", !.patrolTimer = DrinkPatrolInterval]
    ELSE IF b.state = "moving"
         THEN [b EXCEPT !.state = "serving", !.serviceTimer = DrinkServiceTime,
                        !.servingElapsed = 0]
         ELSE b

OnArrival(b) ==
    IF b.state = "recalling"
    THEN [b EXCEPT !.state = "patrolling", !.patrolTimer = DrinkPatrolInterval]
    ELSE IF b.state = "moving" /\ b.targetFanActor # Null
         THEN [b EXCEPT !.state = "serving", !.serviceTimer = DrinkServiceTime,
                        !.servingElapsed = 0]
         ELSE b

OnServeComplete(b) ==
    [b EXCEPT !.targetFanActor = Null, !.targetPosition = Null, !.state = "idle",
              !.scanTimer = ScanDelayAfterService]

UpdateIdle(b, deltaTime, ch) ==
    LET t == [b EXCEPT !.scanTimer = @ - deltaTime, !.idleTimer = @ + deltaTime]
        held == [t EXCEPT !.targetFanActor = "fan", !.targetPosition = "seat"]
    IN IF t.idleTimer >= IdleTimeout
       THEN StartPatrol(t, ch)
       ELSE IF t.scanTimer > 0
            THEN t
            ELSE IF ~ch.target
                 THEN [t EXCEPT !.scanTimer = ScanRetryDelay]
                 ELSE IF ~held.pathfindingService
                      THEN [held EXCEPT !.state = "moving"]
                      ELSE IF ch.path > 0
                           THEN [held EXCEPT !.pathLeft = ch.path, !.state = "moving",
                                             !.idleTimer = 0]
                           ELSE [held EXCEPT !.scanTimer = ScanRetryDelay]

UpdateServing(b, deltaTime) ==
    LET t == [b EXCEPT !.serviceTimer = @ - deltaTime, !.servingElapsed = @ + deltaTime]
    IN IF t.serviceTimer <= 0 THEN OnServeComplete(t) ELSE t

UpdatePatrol(b, deltaTime, ch) ==
    LET t == [b EXCEPT !.patrolTimer = @ - deltaTime]
    IN IF t.patrolTimer > 0
       THEN t
       ELSE [(IF ch.waypoint THEN [t EXCEPT !.state = "moving"] ELSE t)
                EXCEPT !.patrolTimer = DrinkPatrolInterval]

Tick(b, deltaTime, ch) ==
    LET t == IF b.cooldownTimer > 0
             THEN [b EXCEPT !.cooldownTimer = Max(0, @ - deltaTime)]
             ELSE b
    IN CASE t.state = "idle" -> UpdateIdle(t, deltaTime, ch)
         [] t.state = "serving" -> UpdateServing(t, deltaTime)
         [] t.state = "patrolling" -> UpdatePatrol(t, deltaTime, ch)
         [] OTHER -> t

\* DrinkVendorActor.update: a vendor on a path walks one cell; when that was
\* the last one onArrival() is called; then the behaviour ticks
Moved(b) == IF b.pathLeft > 0 THEN [b EXCEPT !.pathLeft = @ - 1] ELSE b

Arrives(b) == b.pathLeft > 0 /\ Moved(b).pathLeft = 0

managerOnlyVars == <<sessionVars, scoreVars, ledgerVars, boosterVars, flagVars, columnVars,
                     propagateVars, vendorVars, emitCount>>

DrinkVendorUpdate(delta, ch) ==
    /\ drinkVendor' = Tick(IF Arrives(drinkVendor) THEN OnArrival(Moved(drinkVendor))
                           ELSE Moved(drinkVendor), delta, ch)
    /\ call' = Called("drinkVendorUpdate", <<delta>>, drinkVendor.state,
                      Arrives(drinkVendor))
    /\ UNCHANGED managerOnlyVars

DrinkOnArrival ==
    /\ drinkVendor' = OnArrival(drinkVendor)
    /\ call' = Called("onArrival", <<>>, drinkVendor.state, Null)
    /\ UNCHANGED managerOnlyVars

AssignToSection(sectionIdx) ==
    /\ drinkVendor' = [drinkVendor EXCEPT !.assignedSectionIdx = <<sectionIdx>>,
                                          !.state = "idle",
                                          !.scanTimer = 0,
                                          !.idleTimer = 0,
                                          !.cooldownTimer = AssignmentCooldown]
    /\ call' = Called("assignToSection", <<sectionIdx>>, drinkVendor.state, Null)
    /\ UNCHANGED managerOnlyVars

CancelAssignment ==
    /\ drinkVendor' = [drinkVendor EXCEPT !.assignedSectionIdx = <<>>,
                                          !.targetFanActor = Null,
                                          !.targetPosition = Null,
                                          !.state = "awaitingAssignment",
                                          !.idleTimer = 0]
    /\ call' = Called("cancelAssignment", <<>>, drinkVendor.state, Null)
    /\ UNCHANGED managerOnlyVars

\* the player recalls a vendor whose timers have not run away
RequestRecall(access) ==
    /\ drinkVendor.idleTimer < IdleTimeout
    /\ drinkVendor.scanTimer > -MaxScanOverdue
    /\ drinkVendor' = [drinkVendor EXCEPT !.state = IF access THEN "recalling" ELSE "idle"]
    /\ call' = Called("requestRecall", <<>>, drinkVendor.state, Null)
    /\ UNCHANGED managerOnlyVars

InitDrink ==
    /\ InitManagers
    /\ \E service \in BOOLEAN : drinkVendor = NewDrinkVendor(service)
    /\ call = Called("constructor", <<>>, Null, Null)

NextDrink ==
    \/ \E d \in DrinkDeltas, ch \in Answers : DrinkVendorUpdate(d, ch)
    \/ DrinkOnArrival
    \/ AssignToSection(0)
    \/ CancelAssignment
    \/ \E access \in BOOLEAN : RequestRecall(access)

SpecDrink == InitDrink /\ [][NextDrink]_vars

\* the same vendor when the actor is updated on every frame
SpecDrinkLive ==
    /\ SpecDrink
    /\ WF_vars(\E d \in DrinkDeltas, ch \in Answers : DrinkVendorUpdate(d, ch))

-----------------------------------------------------------------------------
(* GridManager: directional passability between two cells *)

CardinalDirections == {"top", "right", "bottom", "left"}

OPPOSITE_DIRECTION == [top |-> "bottom", right |-> "left", bottom |-> "top", left |-> "right"]

ZoneTypes == {"ground", "corridor", "seat", "rowEntry", "stair", "sky"}

TransitionTypes == {"rowBoundary", "stairLanding", "corridorEntry"}

AllDirections(flag) == [d \in CardinalDirections |-> flag]

HorizontalOnly == [d \in CardinalDirections |-> d \in {"left", "right"}]

getZoneDirectionalDefaults(zoneType) ==
    IF zoneType = "sky"
    THEN [allowedIncoming |-> AllDirections(FALSE), allowedOutgoing |-> AllDirections(FALSE)]
    ELSE IF zoneType = "seat"
    THEN [allowedIncoming |-> HorizontalOnly, allowedOutgoing |-> HorizontalOnly]
    ELSE [allowedIncoming |-> AllDirections(TRUE), allowedOutgoing |-> AllDirections(TRUE)]

\* a cell of the grid after buildGrid() and applyCellRange() with this zone
\* and transition; exists is false for coordinates getCell() answers null for
RangeCell(zoneType, transitionType) ==
    [allowedIncoming |-> getZoneDirectionalDefaults(zoneType).allowedIncoming,
     allowedOutgoing |-> getZoneDirectionalDefaults(zoneType).allowedOutgoing,
     exists |-> TRUE,
     passable |-> TRUE,
     transitionType |-> transitionType,
     walls |-> AllDirections(FALSE),
     zoneType |-> zoneType]

\* the step (rowDelta, colDelta) from a cell to its neighbour in a direction
NeighborDelta(direction) ==
    IF direction = "top" THEN <<-1, 0>>
    ELSE IF direction = "right" THEN <<0, 1>>
    ELSE IF direction = "bottom" THEN <<1, 0>>
    ELSE <<0, -1>>

\* what else the configuration or the game did to one of the two cells: a
\* wall registered on one side, a directional flag overridden to the opposite
\* of the zone default, the cell made impassable, or coordinates off the grid
CellChanges ==
    {[kind |-> k, direction |-> d] : k \in {"wall", "incoming", "outgoing"}, d \in CardinalDirections}
        \cup {[kind |-> k, direction |-> Null] : k \in {"none", "impassable", "outOfBounds"}}

\* the changed cell itself
Changed(cell, change) ==
    IF change.kind = "wall" THEN [cell EXCEPT !.walls[change.direction] = TRUE]
    ELSE IF change.kind = "incoming"
    THEN [cell EXCEPT !.allowedIncoming[change.direction] = ~@]
    ELSE IF change.kind = "outgoing"
    THEN [cell EXCEPT !.allowedOutgoing[change.direction] = ~@]
    ELSE IF change.kind = "impassable" THEN [cell EXCEPT !.passable = FALSE]
    ELSE IF change.kind = "outOfBounds" THEN [cell EXCEPT !.exists = FALSE]
    ELSE cell

\* the other cell: setWallState mirrors a wall onto the neighbour it faces;
\* delta is the step from the changed cell to the other cell
Mirrored(cell, change, delta) ==
    IF change.kind = "wall" /\ delta = NeighborDelta(change.direction)
    THEN [cell EXCEPT !.walls[OPPOSITE_DIRECTION[change.direction]] = TRUE]
    ELSE cell

\* faulty variant: the incoming flag of the source and the outgoing flag of the target are read
IsPassableDirectionFlagsSwapped(fromCell, toCell, rowDelta, colDelta) ==
    IF ~fromCell.exists \/ ~toCell.exists THEN FALSE
    ELSE IF ~fromCell.passable \/ ~toCell.passable THEN FALSE
    ELSE IF \A d \in CardinalDirections : NeighborDelta(d) # <<rowDelta, colDelta>> THEN FALSE
    ELSE LET direction == CHOOSE d \in CardinalDirections : NeighborDelta(d) = <<rowDelta, colDelta>>
             oppositeDir == OPPOSITE_DIRECTION[direction]
         IN IF fromCell.walls[direction] \/ toCell.walls[oppositeDir] THEN FALSE
            ELSE IF ~fromCell.allowedIncoming[direction] \/ ~toCell.allowedOutgoing[oppositeDir] THEN FALSE
            ELSE IF /\ toCell.zoneType = "seat" /\ fromCell.zoneType # "seat"
                    /\ fromCell.transitionType # "rowBoundary"
                    /\ toCell.transitionType # "rowBoundary"
                 THEN FALSE
            ELSE TRUE

IsPassableDirection(fromCell, toCell, rowDelta, colDelta) ==
    IF ~fromCell.exists \/ ~toCell.exists THEN FALSE
    ELSE IF ~fromCell.passable \/ ~toCell.passable THEN FALSE
    ELSE IF \A d \in CardinalDirections : NeighborDelta(d) # <<rowDelta, colDelta>> THEN FALSE
    ELSE LET direction == CHOOSE d \in CardinalDirections : NeighborDelta(d) = <<rowDelta, colDelta>>
             oppositeDir == OPPOSITE_DIRECTION[direction]
         IN IF fromCell.walls[direction] \/ toCell.walls[oppositeDir] THEN FALSE
            ELSE IF ~fromCell.allowedOutgoing[direction] \/ ~toCell.allowedIncoming[oppositeDir] THEN FALSE
            ELSE IF /\ toCell.zoneType = "seat" /\ fromCell.zoneType # "seat"
                    /\ fromCell.transitionType # "rowBoundary"
                    /\ toCell.transitionType # "rowBoundary"
                 THEN FALSE
            ELSE TRUE

\* steps between the two cells: the eight neighbours, the cell itself and two cells apart
GridDeltas == ((-1..1) \X (-1..1)) \cup {<<0, 2>>, <<-2, 0>>}

\* a grid whose zone configuration puts these two cells this step apart
GridLoaded(fromCell, toCell, delta) ==
    call = Called("loadZoneConfig", <<fromCell, toCell, delta[1], delta[2]>>, Null, Null)

InitGrid ==
    /\ InitManagers
    /\ drinkVendor = NewDrinkVendor(FALSE)
    /\ \E fz \in ZoneTypes, ft \in TransitionTypes \cup {Null},
          tz \in ZoneTypes, tt \in TransitionTypes \cup {Null},
          change \in CellChanges, delta \in GridDeltas :
            \/ GridLoaded(Changed(RangeCell(fz, ft), change),
                          Mirrored(RangeCell(tz, tt), change, delta), delta)
            \/ GridLoaded(Mirrored(RangeCell(fz, ft), change, <<-delta[1], -delta[2]>>),
                          Changed(RangeCell(tz, tt), change), delta)

IsPassableDirectionCall ==
    /\ call.op = "loadZoneConfig"
    /\ call' = Called("isPassableDirection", call.args, Null,
                      IsPassableDirection(call.args[1], call.args[2], call.args[3], call.args[4]))
    /\ UNCHANGED managerVars

NextGrid == IsPassableDirectionCall

SpecGrid == InitGrid /\ [][NextGrid]_vars

----------------------------------------------------------------------------
(* Properties of the strength ledger (SpecLedger) and of the booster and   *)
(* forced-flag registry (SpecRegistry)                                     *)

\* the momentum multiplier as the transition table states it
ClaimedMomentum == IF waveBoosterMultiplier > 100 THEN waveBoosterMultiplier ELSE 100

AfterAdjustFrom(lastState) ==
    call.op = "adjustWaveStrength" /\ lastSectionWaveState = lastState

\* C1: after any sequence of adjustWaveStrength, setWaveStrength and startWave
\* calls the strength is within [0,100].
C1_StrengthClamped ==
    currentWaveStrength >= 0 /\ currentWaveStrength <= 10000

\* an adjustment whose raw sum left [0,100] and was clamped to the ceiling
C1_Witness ==
    /\ call.op = "adjustWaveStrength"
    /\ AdjustedStrengthUnclamped(lastSectionWaveState, call.args[1], call.args[2],
                                 ClaimedMomentum, call.before) > 10000
    /\ currentWaveStrength = 10000

\* C2: coming from success the delta depends on the current state only:
\* +5 x momentum for success, -15 for sputter, -30 for death, then clamped.
C2_FromSuccess ==
    AfterAdjustFrom("success") =>
        currentWaveStrength =
            Clamp(call.before +
                  (CASE call.args[1] = "success" -> 5 * ClaimedMomentum
                     [] call.args[1] = "sputter" -> -1500
                     [] call.args[1] = "death" -> -3000))

\* 55 -> 40 on sputter, with a participation rate in the success range
C2_Witness ==
    /\ AfterAdjustFrom("success")
    /\ call.args = <<"sputter", 65>>
    /\ call.before = 5500
    /\ currentWaveStrength = 4000

\* C3: coming from sputter the delta depends on the participation rate only:
\* +10 x momentum if rate >= 0.6, -8 if 0.4 <= rate < 0.6, -25 if rate < 0.4,
\* then clamped.
C3_FromSputter ==
    AfterAdjustFrom("sputter") =>
        currentWaveStrength =
            Clamp(call.before +
                  (IF call.args[2] >= 60 THEN 10 * ClaimedMomentum
                   ELSE IF call.args[2] >= 40 THEN -800
                   ELSE -2500))

\* strength 40, rate 0.65 -> 50, with the section labelled death
C3_Witness ==
    /\ AfterAdjustFrom("sputter")
    /\ call.args = <<"death", 65>>
    /\ waveBoosterMultiplier = 100
    /\ call.before = 4000
    /\ currentWaveStrength = 5000

\* C4: coming from death the delta is +15 x momentum if rate >= 0.6, -10 if
\* 0.4 <= rate < 0.6, -5 if rate < 0.4, then clamped.
C4_FromDeath ==
    AfterAdjustFrom("death") =>
        currentWaveStrength =
            Clamp(call.before +
                  (IF call.args[2] >= 60 THEN 15 * ClaimedMomentum
                   ELSE IF call.args[2] >= 40 THEN -1000
                   ELSE -500))

\* strength 5, rate 0.1 -> 0
C4_Witness ==
    /\ AfterAdjustFrom("death")
    /\ call.args[2] = 10
    /\ call.before = 500
    /\ currentWaveStrength = 0

\* strength 50, rate 0.65, momentum 1.0 -> 65
C4_WitnessRecovery ==
    /\ AfterAdjustFrom("death")
    /\ call.args[2] = 65
    /\ waveBoosterMultiplier = 100
    /\ call.before = 5000
    /\ currentWaveStrength = 6500

C6_NonStacking ==
    call.op = "applyWaveBooster" =>
        /\ waveBoosterMultiplier = 100 + boosterPercents[call.args[1]]
        /\ lastBoosterType = call.args[1]

\* booster B applied while a different booster A was active
C6_Witness ==
    /\ call.op = "applyWaveBooster"
    /\ call.before > 100
    /\ call.before # waveBoosterMultiplier

\* C7: consumeForcedFlags returns the two flags as they were and leaves both
\* false; a flag becomes true again only through its own setter.
C7_OneShotFlags ==
    [][/\ call'.op = "consumeForcedFlags" =>
            /\ call'.ret = [sputter |-> forceSputterNextSection,
                            death |-> forceDeathNextSection]
            /\ ~forceSputterNextSection'
            /\ ~forceDeathNextSection'
       /\ (~forceSputterNextSection /\ forceSputterNextSection') =>
            (call'.op = "setForceSputter" /\ call'.args = <<TRUE>>)
       /\ (~forceDeathNextSection /\ forceDeathNextSection') =>
            (call'.op = "setForceDeath" /\ call'.args = <<TRUE>>)]_vars

\* a consume that returned both flags set and cleared them
C7_Witness ==
    /\ call.op = "consumeForcedFlags"
    /\ call.ret = [sputter |-> TRUE, death |-> TRUE]
    /\ ~forceSputterNextSection
    /\ ~forceDeathNextSection

----------------------------------------------------------------------------
(* Properties of the orchestrator (Spec) *)

SectionKeys == {"sectionWave_A", "sectionWave_B", "sectionWave_C"}

\* sectionWave events emitted since the last startWave()
Signalled == emitCount["sectionWave_A"] + emitCount["sectionWave_B"] + emitCount["sectionWave_C"]

\* C8: right after every startWave(), lastSectionWaveState is null and the
\* results are empty, whatever the previous wave left.
C8_WaveReset ==
    call.op = "startWave" => (lastSectionWaveState = Null /\ waveResults = <<>>)

\* C9: once a section of the propagation has classified as death, the
\* multiplier is 1.0 and no step raises the score, for that section or later.
C9_NoScoreAfterDeath ==
    [][hasFailedOnce' => (score' = score /\ multiplier' = 100)]_vars

\* a propagation that scored section A and then met a death in section B
C9_Witness ==
    /\ hasFailedOnce
    /\ ~propagating
    /\ Len(waveResults) = 2
    /\ waveResults[1].success
    /\ ~waveResults[2].success
    /\ lastSectionWaveState = "death"
    /\ score >= 100

ResultsInSectionOrder ==
    /\ Len(waveResults) <= Len(Sections)
    /\ \A k \in 1..Len(waveResults) : waveResults[k].section = Sections[k]

Begins(k) == emitCount'[SectionWaveKey(k)] > emitCount[SectionWaveKey(k)]

\* a step in which propagateWave() records a section's result
RecordsSection == Len(waveResults') = Len(waveResults) + 1

\* C11: sectionWave for section N+1 is emitted only by the step that resumes
\* from section N's handshake and records the state committed for section N;
\* while a propagation runs exactly one section is in processing.
C11_StrictlySequential ==
    [][/\ \A k \in {1, 2} :
            Begins(k) =>
                /\ pc = "await"
                /\ loopIndex = k - 1
                /\ emitCount[SectionWaveKey(k - 1)] = 1
                /\ Len(waveResults') = k
                /\ waveResults'[k].section = Sections[k]
                /\ waveResults'[k].success = (lastSectionWaveState' = "success")
       /\ propagating' => (pc' = "await" /\ Signalled' = Len(waveResults') + 1)
       /\ ~propagating' => pc' = "none"]_vars

\* section B's handshake pending, after the listener committed success for A
C11_Witness ==
    /\ propagating
    /\ pc = "await"
    /\ loopIndex = 1
    /\ listener = "idle"
    /\ waveResults = <<[section |-> "A", success |-> TRUE, chance |-> 0]>>
    /\ lastSectionWaveState = "success"
    /\ emitCount["sectionWave_B"] = 1
    /\ emitCount["sectionWave_C"] = 0

C13_WaveCompletion ==
    [][/\ (propagating /\ ~propagating') =>
            /\ emitCount'["waveComplete"] = 1
            /\ emitCount["waveComplete"] = 0
            /\ call'.op = "propagateWave"
            /\ call'.ret = [event |-> "waveComplete", results |-> waveResults']
            /\ Len(waveResults') = Signalled'
            /\ ~active'
       /\ emitCount'["waveComplete"] > emitCount["waveComplete"] =>
            (propagating /\ ~propagating')
       /\ emitCount'["waveComplete"] = 1 => ~active']_vars

\* a completed three-section wave
C13_Witness ==
    /\ call.op = "propagateWave"
    /\ ~propagating
    /\ ~active
    /\ emitCount["waveComplete"] = 1
    /\ Len(waveResults) = 3
    /\ waveResults[3].success

-----------------------------------------------------------------------------
(* Properties of the classification functions (SpecColumn)                  *)

\* C14: every participation rate falls in exactly one class: success from the
\* success threshold up, sputter from the sputter threshold up to below the
\* success threshold, death below the sputter threshold; 0.60 is a success
\* and 0.40 a sputter.
C14_ThreeWayPartition ==
    call.op = "classifyColumn" =>
        LET rate == call.args[1]
        IN /\ call.ret \in States
           /\ (call.ret = "success") = (rate >= columnSuccessThreshold)
           /\ (call.ret = "sputter") = (columnSputterThreshold <= rate /\ rate < columnSuccessThreshold)
           /\ (call.ret = "death") = (rate < columnSputterThreshold)
           /\ rate = 60 => call.ret = "success"
           /\ rate = 40 => call.ret = "sputter"
           /\ rate = 59 => call.ret = "sputter"
           /\ rate = 39 => call.ret = "death"

\* the boundary 0.60 classified as success
C14_Witness ==
    /\ call.op = "classifyColumn"
    /\ call.args = <<60>>
    /\ call.ret = "success"

\* C15: the recovery bonus is recoveryPowerMultiplier for sputter -> success
\* and 0 for the eight other pairs of column states.
C15_RecoveryBonusExact ==
    call.op = "calculateEnhancedRecovery" =>
        LET prev == call.args[1]
            cur == call.args[2]
        IN /\ recoveryPowerMultiplier # 0
           /\ (prev = "sputter" /\ cur = "success") => call.ret = recoveryPowerMultiplier
           /\ ~(prev = "sputter" /\ cur = "success") => call.ret = 0

\* sputter -> success earned the bonus
C15_Witness ==
    /\ call.op = "calculateEnhancedRecovery"
    /\ call.args = <<"sputter", "success">>
    /\ call.ret = recoveryPowerMultiplier

\* success > sputter > death
Priority(state) == IF state = "success" THEN 3 ELSE IF state = "sputter" THEN 2 ELSE 1

\* C16: the section's class has the most columns, and no class of higher
\* priority (success > sputter > death) has as many.
C16_TieBreakPriority ==
    call.op = "classifySection" =>
        LET counts == call.args[1]
        IN /\ call.ret \in States
           /\ \A other \in States : counts[other] <= counts[call.ret]
           /\ \A other \in States :
                  Priority(other) > Priority(call.ret) => counts[other] < counts[call.ret]
           /\ counts = [success |-> 3, sputter |-> 3, death |-> 2] => call.ret = "success"
           /\ counts = [success |-> 0, sputter |-> 4, death |-> 4] => call.ret = "sputter"

\* three successes tied with three sputters: success
C16_Witness ==
    /\ call.op = "classifySection"
    /\ call.args = <<[success |-> 3, sputter |-> 3, death |-> 2]>>
    /\ call.ret = "success"

-----------------------------------------------------------------------------
(* Properties of the booster and the forced flags over whole waves          *)

\* C17: the step that completes a wave leaves the booster neutral (multiplier
\* 1.0, kind none), and no step of a running propagation resets it.
C17_BoosterClearedAtCompletion ==
    [][/\ (propagating /\ ~propagating') =>
            (waveBoosterMultiplier' = 100 /\ lastBoosterType' = "none")
       /\ (propagating /\ propagating' /\ waveBoosterMultiplier # 100) =>
            waveBoosterMultiplier' # 100]_vars

\* C18: once a section has been signalled both forced flags are false.
C18_FlagsConsumedAtSectionStart ==
    [][Signalled' > Signalled =>
            (~forceSputterNextSection' /\ ~forceDeathNextSection')]_vars

-----------------------------------------------------------------------------
(* Properties of the VendorManager (SpecVendor)                             *)

\* C19: placeVendor on a vendor that is serving or on cooldown returns false,
\* leaves the vendor as it was and emits no vendorPlaced; on an idle vendor it
\* returns true and the vendor is serving in the requested section.
C19_PlaceVendorGuard ==
    [][call'.op = "placeVendor" =>
          LET v == call'.args[1]
              s == call'.args[2]
          IN IF vendors[v].isServing \/ vendors[v].cooldown > 0
             THEN /\ call'.ret = FALSE
                  /\ vendors'[v].currentSection = vendors[v].currentSection
                  /\ vendors'[v].isServing = vendors[v].isServing
                  /\ vendors'[v].serviceTimer = vendors[v].serviceTimer
                  /\ \A i \in 1..Len(vendorEvents') : vendorEvents'[i].event # "vendorPlaced"
             ELSE /\ call'.ret = TRUE
                  /\ vendors'[v].isServing
                  /\ vendors'[v].currentSection = s]_vars

\* a move to another section refused while the vendor is part-way through a service
C19_Witness ==
    /\ call.op = "placeVendor"
    /\ call.ret = FALSE
    /\ vendors[call.args[1]].isServing
    /\ vendors[call.args[1]].currentSection # call.args[2]
    /\ vendors[call.args[1]].serviceTimer < ServiceTime
    /\ vendorEvents = <<>>

\* C20: for a placed vendor, once the update() deltas since the placement sum
\* to 2000 ms or more the service has completed: not serving, no section, no
\* cooldown, one vendorServe with the section and one serviceComplete with
\* {vendorId, section}; before that the vendor still serves its section and
\* neither has happened.
C20_ServiceCompletion ==
    \A v \in VendorIds :
        LET track == vendorTrack[v]
        IN track.section # Null =>
              IF track.elapsed >= ServiceTime
              THEN /\ ~vendors[v].isServing
                   /\ vendors[v].currentSection = Null
                   /\ vendors[v].cooldown = 0
                   /\ track.served = <<track.section>>
                   /\ track.completed = <<[vendorId |-> v, section |-> track.section]>>
              ELSE /\ vendors[v].isServing
                   /\ vendors[v].currentSection = track.section
                   /\ track.served = <<>>
                   /\ track.completed = <<>>

\* a service in B completed by several updates that overshoot 2000 ms
C20_Witness ==
    /\ call.op = "update"
    /\ vendorTrack[0].section = "B"
    /\ vendorTrack[0].elapsed >= ServiceTime
    /\ vendors[0].serviceTimer < 0
    /\ ~vendors[0].isServing
    /\ vendorTrack[0].completed = <<[vendorId |-> 0, section |-> "B"]>>
    /\ vendorTrack[1].section # Null
    /\ vendors[1].isServing

\* C21: isVendorInSection(s) answers true exactly when some vendor is serving
\* in s: a vendor was placed in s and less than the service time has passed
\* since; false once that service has completed and for sections without a
\* serving vendor.
C21_VendorInSection ==
    call.op = "isVendorInSection" =>
        LET s == call.args[1]
        IN /\ call.ret = (\E v \in VendorIds :
                              vendors[v].isServing /\ vendors[v].currentSection = s)
           /\ call.ret = (\E v \in VendorIds :
                              vendorTrack[v].section = s /\ vendorTrack[v].elapsed < ServiceTime)
           /\ (\A v \in VendorIds : ~vendors[v].isServing) => call.ret = FALSE

\* true for the section where the second vendor serves, after the first
\* vendor's service in that same section has completed
C21_Witness ==
    /\ call.op = "isVendorInSection"
    /\ call.ret = TRUE
    /\ vendorTrack[0].section = call.args[1]
    /\ ~vendors[0].isServing
    /\ vendors[1].isServing
    /\ vendors[1].currentSection = call.args[1]

-----------------------------------------------------------------------------
(* Properties of GridManager.isPassableDirection (SpecGrid)                 *)

\* is the step one cell up, down, left or right
Orthogonal(rowDelta, colDelta) ==
    \/ (rowDelta \in {-1, 1} /\ colDelta = 0)
    \/ (rowDelta = 0 /\ colDelta \in {-1, 1})

\* the side of the source cell that faces the target
Facing(rowDelta, colDelta) ==
    IF rowDelta = -1 THEN "top" ELSE IF rowDelta = 1 THEN "bottom"
    ELSE IF colDelta = -1 THEN "left" ELSE "right"

\* the side of the target cell that faces the source
FacingBack(rowDelta, colDelta) ==
    IF rowDelta = -1 THEN "bottom" ELSE IF rowDelta = 1 THEN "top"
    ELSE IF colDelta = -1 THEN "right" ELSE "left"

\* a cell exactly as its zone and transition define it
Untouched(cell) == cell = RangeCell(cell.zoneType, cell.transitionType)

\* C22: isPassableDirection is true only for two in-bounds, passable,
\* orthogonally adjacent cells without a wall on either facing side, with the
\* source's outgoing flag and the target's incoming flag set, and, when a seat
\* is entered from a non-seat, a rowBoundary transition on one of the two;
\* diagonal and non-adjacent moves are false; seat <-> seat and
\* rowEntry (rowBoundary) <-> seat horizontal moves are true.
C22_DirectionalPassability ==
    call.op = "isPassableDirection" =>
        LET from == call.args[1]
            to == call.args[2]
            dr == call.args[3]
            dc == call.args[4]
            horizontal == dr = 0 /\ dc \in {-1, 1}
        IN /\ call.ret =
                (/\ from.exists /\ to.exists
                 /\ from.passable /\ to.passable
                 /\ Orthogonal(dr, dc)
                 /\ ~from.walls[Facing(dr, dc)]
                 /\ ~to.walls[FacingBack(dr, dc)]
                 /\ from.allowedOutgoing[Facing(dr, dc)]
                 /\ to.allowedIncoming[FacingBack(dr, dc)]
                 /\ (to.zoneType = "seat" /\ from.zoneType # "seat") =>
                        (from.transitionType = "rowBoundary" \/ to.transitionType = "rowBoundary"))
           /\ ~Orthogonal(dr, dc) => ~call.ret
           /\ (horizontal /\ Untouched(from) /\ Untouched(to)
                 /\ from.zoneType = "seat" /\ to.zoneType = "seat") => call.ret
           /\ (horizontal /\ Untouched(from) /\ Untouched(to)
                 /\ from.zoneType = "rowEntry" /\ from.transitionType = "rowBoundary"
                 /\ to.zoneType = "seat") => call.ret
           /\ (horizontal /\ Untouched(from) /\ Untouched(to)
                 /\ from.zoneType = "seat"
                 /\ to.zoneType = "rowEntry" /\ to.transitionType = "rowBoundary") => call.ret

\* the rowEntry cell left of a seat lets a fan step right into the seat
C22_Witness ==
    /\ call.op = "isPassableDirection"
    /\ call.args = <<RangeCell("rowEntry", "rowBoundary"), RangeCell("seat", Null), 0, 1>>
    /\ call.ret = TRUE

-----------------------------------------------------------------------------
(* Further properties of the strength ledger (SpecLedger)                   *)

-----------------------------------------------------------------------------
(* Further properties of whole waves (Spec)                                 *)

-----------------------------------------------------------------------------
\* C25: right after startWave() the wave is active, the strength is the
\* configured starting strength, the countdown is the configured trigger
\* time, the current section index is 0, no failed column is counted and no
\* sputter is active, whatever the manager held before the call.
C25_StartWaveResets ==
    call.op = "startWave" =>
        /\ active
        /\ currentWaveStrength = StartingStrength
        /\ countdown = TriggerCountdown
        /\ currentSection = 0
        /\ consecutiveFailedColumns = 0
        /\ waveSputter = [active |-> FALSE, columnsRemaining |-> 0]

\* a wave is started on a manager whose previous wave has completed and left
\* its last section state behind
C25_Witness ==
    /\ call.op = "startWave"
    /\ score > 0
    /\ lastSectionWaveState # Null


-----------------------------------------------------------------------------
\* C26: startWave() and the countdown ticks that follow it, the tick that
\* begins the first section included, leave both forced flags, the booster
\* multiplier and the booster kind as they were, so what was set before the
\* wave is still set when section A begins.
C26_RegistrySurvivesStart ==
    [][call'.op \in {"startWave", "updateCountdown"} => UNCHANGED <<flagVars, boosterVars>>]_vars

\* a later wave has just been started with a forced sputter still pending
C26_Witness ==
    /\ call.op = "startWave"
    /\ forceSputterNextSection
    /\ score > 0


-----------------------------------------------------------------------------
\* C27: the strength changes only in the startWave reset, in the debug
\* setWaveStrength override and in the adjustment the section listener makes
\* through adjustWaveStrength; the booster, flag, last-state, column and
\* sputter operations, the countdown tick and the loop steps of the
\* propagation leave it as it was.
StrengthWriters == {"startWave", "setWaveStrength", "sectionWaveListener"}

C27_SoleMutatorOfStrength ==
    [][currentWaveStrength' # currentWaveStrength => call'.op \in StrengthWriters]_vars

\* a booster is applied in the middle of a propagation whose strength has
\* already moved away from the starting strength
C27_Witness ==
    /\ call.op = "applyWaveBooster"
    /\ propagating
    /\ currentWaveStrength # StartingStrength


-----------------------------------------------------------------------------
\* the entry propagateWave() records for the section whose handshake is pending
RecordedEntry ==
    [section |-> Sections[Len(waveResults) + 1],
     success |-> (lastSectionWaveState = "success"),
     chance |-> 0]

\* C28: the step that begins a propagation empties the results; every other
\* step leaves them alone, except the step that resumes from a section's
\* handshake, which appends exactly one entry, for the next section in the
\* order A, B, C, with success true exactly when the state committed for that
\* section is success; the results never hold more entries than there are
\* sections.
C28_ResultsShape ==
    [][/\ Begins(0) => waveResults' = <<>>
       /\ Len(waveResults') <= Len(Sections)
       /\ ~Begins(0) =>
            IF call'.op = "propagateWave"
            THEN /\ Len(waveResults) < Len(Sections)
                 /\ waveResults' = Append(waveResults, RecordedEntry)
                 /\ RecordedEntry.section = Sections[loopIndex + 1]
            ELSE waveResults' = waveResults]_vars

\* a later propagation has recorded a sputter for section A: the results of
\* the propagation that scored before it are gone
C28_Witness ==
    /\ propagating
    /\ score > 0
    /\ call.op = "propagateWave"
    /\ waveResults = <<[section |-> "A", success |-> FALSE, chance |-> 0]>>
    /\ lastSectionWaveState = "sputter"


-----------------------------------------------------------------------------
\* the adjustment of the section whose handshake is pending: made once, from
\* the state the register holds before the listener overwrites it
AdjustsOnceFromRegister ==
    /\ pc = "await"
    /\ listener = "idle"
    /\ listener' = "done"
    /\ currentWaveStrength' =
           AdjustedStrength(lastSectionWaveState, call'.args[1], call'.args[2],
                            MomentumBoost(waveBoosterMultiplier), currentWaveStrength)
    /\ lastSectionWaveState' = call'.args[1]
    /\ loopIndex' = loopIndex

\* C29: each section's listener adjusts the strength exactly once, from a
\* register that holds the classification of the previous section of the same
\* wave and null for section A, and overwrites the register with its own
\* classification only after that adjustment and before the next section is
\* signalled.
C29_AdjustsFromPreviousSection ==
    [][/\ call'.op = "sectionWaveListener" =>
            /\ AdjustsOnceFromRegister
            /\ loopIndex = 0 => lastSectionWaveState = Null
            /\ loopIndex > 0 =>
                 waveResults[loopIndex].success = (lastSectionWaveState = "success")
       /\ call'.op # "sectionWaveListener" => lastSectionWaveState' = lastSectionWaveState]_vars

\* the same without the requirement on section A's register
C29_WithinOneWave ==
    [][/\ call'.op = "sectionWaveListener" =>
            /\ AdjustsOnceFromRegister
            /\ loopIndex > 0 =>
                 waveResults[loopIndex].success = (lastSectionWaveState = "success")
       /\ call'.op # "sectionWaveListener" => lastSectionWaveState' = lastSectionWaveState]_vars


-----------------------------------------------------------------------------
\* every section recorded so far in the wave was a success
AllSuccessSoFar == \A i \in 1..Len(waveResults) : waveResults[i].success

\* C30: in a wave without booster whose sections all classify as success the
\* strength is 50 after section A, 55 after section B and 60 after section C,
\* and 60 when the wave has completed, in every wave of the manager.
C30_ThreeSuccessScenario ==
    /\ (/\ pc = "await"
        /\ listener = "done"
        /\ waveBoosterMultiplier = 100
        /\ lastSectionWaveState = "success"
        /\ AllSuccessSoFar)
       => currentWaveStrength = StartingStrength + 500 * loopIndex
    /\ (/\ emitCount["waveComplete"] = 1
        /\ waveBoosterMultiplier = 100
        /\ Len(waveResults) = Len(Sections)
        /\ AllSuccessSoFar)
       => currentWaveStrength = 6000


-----------------------------------------------------------------------------
\* C31: while a section's handshake is unanswered, every step other than the
\* resumption from that handshake leaves the propagation suspended at the
\* same section: no section is signalled, waveComplete is not emitted, the
\* wave stays active, the results and the score stay as they are, and a
\* propagateWave() invoked by a further tick returns at its guard.
C31_BlockedWithoutResponse ==
    [][(pc = "await" /\ call'.op # "propagateWave") =>
            /\ pc' = "await"
            /\ active /\ active'
            /\ propagating /\ propagating'
            /\ UNCHANGED <<loopIndex, waveResults, emitCount, score, hasFailedOnce>>]_vars

\* section B's handshake is unanswered and the countdown has been ticked as
\* far below zero as the scene's clock goes
C31_Witness ==
    /\ pc = "await"
    /\ loopIndex = 1
    /\ listener = "idle"
    /\ call.op = "updateCountdown"
    /\ countdown <= -MaxOvershoot
    /\ active
    /\ emitCount["sectionWave_C"] = 0
    /\ emitCount["waveComplete"] = 0


-----------------------------------------------------------------------------
\* C32: when the scene keeps ticking and every sectionWave listener returns,
\* each wave started with startWave() eventually completes: waveComplete has
\* been emitted for it and the wave is no longer active.
C32_WaveTerminates ==
    (call.op = "startWave") ~> (~active /\ ~propagating /\ emitCount["waveComplete"] = 1)

\* a wave started after an earlier one has run through all its sections and completed
C32_Witness ==
    /\ ~active
    /\ ~propagating
    /\ emitCount["waveComplete"] = 1
    /\ Len(waveResults) = Len(Sections)
    /\ score > 300


-----------------------------------------------------------------------------
\* C33: a propagateWave() invoked by a tick while a propagation is running
\* changes nothing: results, score, multiplier, strength, last section state,
\* active and the position of the running propagation stay as they are and no
\* sectionWave or waveComplete event is emitted.
C33_ReentrantCallIsNoOp ==
    [][(propagating /\ call'.op = "updateCountdown" /\ countdown' <= 0) =>
            UNCHANGED <<waveResults, score, multiplier, currentWaveStrength,
                        lastSectionWaveState, active, propagating, pc, loopIndex,
                        hasFailedOnce, listener, emitCount>>]_vars

\* a tick below zero arrives while section C's handshake is pending, after
\* sections A and B have scored
C33_Witness ==
    /\ call.op = "updateCountdown"
    /\ countdown < -1
    /\ propagating
    /\ loopIndex = 2
    /\ listener = "done"
    /\ score = 200
    /\ emitCount["sectionWave_C"] = 1


-----------------------------------------------------------------------------
\* the record a recordColumnState call was made with
RecordedArgs(c) ==
    [sectionId |-> c.args[1], columnIndex |-> c.args[2],
     participation |-> c.args[3], state |-> c.args[4]]

\* the last Min(Len(all), capacity) entries of all, in order
MostRecent(all) ==
    LET n == Min(Len(all), MaxColumnRecords)
    IN [i \in 1..n |-> all[Len(all) - n + i]]

\* each recordColumnState call leaves the most recent records, oldest first
BufferKeepsMostRecent ==
    /\ Len(columnStateRecords') <= MaxColumnRecords
    /\ call'.op = "recordColumnState" =>
         /\ columnStateRecords' = MostRecent(Append(columnStateRecords, RecordedArgs(call')))
         /\ Len(columnStateRecords') = Min(Len(columnStateRecords) + 1, MaxColumnRecords)

-----------------------------------------------------------------------------
\* C35: the behaviour enters 'serving' only from 'moving' with a target fan
\* held; onArrival() turns 'moving' with a target into 'serving', 'recalling'
\* into 'patrolling' and changes no other state; while 'serving' a target fan
\* is held and the deltas ticked since the service began are below the
\* service time; the tick that brings them to the service time or beyond
\* leaves the behaviour 'idle' with target fan and target position cleared.
C35_ServiceCycle ==
    [][/\ (drinkVendor'.state = "serving" /\ drinkVendor.state # "serving") =>
            /\ drinkVendor.state = "moving"
            /\ drinkVendor.targetFanActor # Null
       /\ call'.op = "onArrival" =>
            drinkVendor'.state =
                IF drinkVendor.state = "recalling" THEN "patrolling"
                ELSE IF drinkVendor.state = "moving" /\ drinkVendor.targetFanActor # Null
                     THEN "serving"
                     ELSE drinkVendor.state
       /\ drinkVendor'.state = "serving" =>
            /\ drinkVendor'.targetFanActor # Null
            /\ drinkVendor'.servingElapsed < DrinkServiceTime
       /\ (/\ drinkVendor.state = "serving"
           /\ call'.op = "drinkVendorUpdate"
           /\ drinkVendor.servingElapsed + call'.args[1] >= DrinkServiceTime) =>
            /\ drinkVendor'.state = "idle"
            /\ drinkVendor'.targetFanActor = Null
            /\ drinkVendor'.targetPosition = Null]_vars

\* a vendor that walked a path to its fan has served for the service time and
\* is idle again
C35_Witness ==
    /\ call.op = "drinkVendorUpdate"
    /\ call.before = "serving"
    /\ drinkVendor.state = "idle"
    /\ drinkVendor.pathfindingService
    /\ drinkVendor.servingElapsed >= DrinkServiceTime
    /\ drinkVendor.targetFanActor = Null
    /\ drinkVendor.targetPosition = Null


-----------------------------------------------------------------------------
\* C36: every step in which propagateWave() exits, by completing or because a
\* sectionWave listener threw or rejected, leaves the re-entrancy guard
\* released and the wave inactive.
C36_GuardReleasedOnExit ==
    [][(pc = "await" /\ pc' = "none") => (~propagating' /\ ~active')]_vars


-----------------------------------------------------------------------------
\* C37: the score never decreases and startWave() leaves it alone; it changes
\* only in the step that records a section's result, by exactly 100 when the
\* recorded entry is a success and by nothing otherwise, so a propagation
\* raises it by 100 for each success entry of its results; the multiplier is
\* 1.0 throughout.
C37_ScoreAccounting ==
    [][/\ score' >= score
       /\ call'.op = "startWave" => score' = score
       /\ IF RecordsSection
          THEN score' = score + (IF waveResults'[Len(waveResults')].success THEN 100 ELSE 0)
          ELSE score' = score
       /\ multiplier = 100 /\ multiplier' = 100]_vars

\* a second wave has completed with success, sputter, success after a first
\* wave that scored one section
C37_Witness ==
    /\ emitCount["waveComplete"] = 1
    /\ ~active
    /\ Len(waveResults) = 3
    /\ waveResults[1].success
    /\ ~waveResults[2].success
    /\ waveResults[3].success
    /\ score = 300


-----------------------------------------------------------------------------
\* C38: a startWave() made while a wave is active, in its countdown or while
\* its propagation is suspended at a handshake, leaves the strength, the
\* countdown and the per-wave counters of that wave as they are.
C38_StartWaveOnlyFromIdle ==
    [][(active /\ call'.op = "startWave") =>
            UNCHANGED <<currentWaveStrength, countdown, consecutiveFailedColumns,
                        waveSputter>>]_vars




-----------------------------------------------------------------------------
\* C39: once a propagateWave() whose waveComplete listener called startWave()
\* has returned, the new wave is active, and with the scene ticking it comes
\* to propagate.
C39_RestartedWaveIsLive ==
    (call.op = "propagateWave" /\ call.args = <<"startWave">>) ~> (active /\ propagating)


-----------------------------------------------------------------------------
\* C40: with the actor updated on every frame, a drink vendor in 'moving'
\* leaves 'moving', unless the player assigns, cancels or recalls it.
PlayerOps == {"assignToSection", "cancelAssignment", "requestRecall"}

C40_MovingIsNotATrap ==
    (drinkVendor.state = "moving") ~>
        (drinkVendor.state # "moving" \/ call.op \in PlayerOps)

====
